---- MODULE Spec2Model ----
(* Survey backend: POST /api/submit and GET /api/stats (src/main.py) over    *)
(* SQLAlchemy sessions (src/database.py) and three tables (src/models.py).   *)
(* Each request is a process; every step that touches the database is one    *)
(* action, so that concurrent requests interleave at statement granularity.  *)
EXTENDS Integers, Sequences, FiniteSets, TLC

\* ---------------------------------------------------------------- bounds
NumReq == 2     \* requests the clients send in one behaviour
MaxItems == 2   \* longest concerns / features list of a request body
MaxInit == 1    \* most rows survey_responses holds when the process starts

Requests == 1..NumReq

\* ------------------------------------------------------- JSON request bodies
\* A JSON scalar as it arrives: its JSON kind and its text.
J(kind, text) == [kind |-> kind, text |-> text]
Absent == J("absent", "")
JNull == J("null", "")
JList(items) == [kind |-> "list", items |-> items]
NoList(kind) == [kind |-> kind, items |-> << >>]

\* Python's int(str) on the numerals the bodies use.
Numerals == {"3", "4", "5"}
NumVal(text) == CASE text = "3" -> 3 [] text = "4" -> 4 [] text = "5" -> 5 [] OTHER -> 0

GoodConcern == [concern_type |-> J("str", "privacy"), rating |-> J("int", "4")]
BadConcern == [concern_type |-> J("str", "trust"), rating |-> J("str", "high")]
GoodFeature == [feature_type |-> J("str", "anonymization"), rating |-> J("int", "5")]
BadFeature == [feature_type |-> JNull, rating |-> J("int", "3")]

RECURSIVE SeqsUpTo(_, _)
SeqsUpTo(S, n) ==
    IF n = 0 THEN {<< >>}
    ELSE LET shorter == SeqsUpTo(S, n - 1)
         IN  shorter \cup {Append(s, x) : s \in {t \in shorter : Len(t) = n - 1}, x \in S}

\* The scenario body of the specification; the fields q3, q4, experimental_group,
\* q8..q10 and q12..q16 are declared and copied exactly like q2 and q7.
BaseBody ==
    [q1_eligible |-> J("bool", "true"),
     q2_participation |-> J("int", "3"),
     q7_data_usage |-> J("str", "researchers_only"),
     q11_open_response |-> Absent,
     concerns |-> JList(<<GoodConcern>>),
     features |-> JList(<<GoodFeature>>)]

Q1Values == {J("bool", "true"), J("bool", "false"), J("str", "yes"), Absent}
Q2Values == {J("int", "3"), J("str", "3"), J("str", "abc"), JNull, Absent}
Q7Values == {J("str", "researchers_only"), JNull, Absent}
Q11Values == {Absent, JNull, J("str", "because"), J("bool", "true")}
ConcernLists ==
    {JList(l) : l \in SeqsUpTo({GoodConcern, BadConcern}, MaxItems)} \cup {NoList("absent")}
FeatureLists ==
    {JList(l) : l \in SeqsUpTo({GoodFeature, BadFeature}, MaxItems)} \cup {NoList("null")}

\* Bodies a client sends: the scenario body with q11 and one more field varied.
Bodies ==
    {[BaseBody EXCEPT !.q11_open_response = o, !.q1_eligible = v] : o \in Q11Values, v \in Q1Values}
    \cup {[BaseBody EXCEPT !.q11_open_response = o, !.q2_participation = v] : o \in Q11Values, v \in Q2Values}
    \cup {[BaseBody EXCEPT !.q7_data_usage = v] : v \in Q7Values}
    \cup {[BaseBody EXCEPT !.concerns = v] : v \in ConcernLists}
    \cup {[BaseBody EXCEPT !.features = v] : v \in FeatureLists}

\* Bodies the clients send when several requests run side by side.
CoreBodies ==
    {BaseBody,
     [BaseBody EXCEPT !.q2_participation = J("str", "4"),
                      !.q11_open_response = JNull,
                      !.concerns = JList(<<GoodConcern, GoodConcern>>),
                      !.features = JList(<< >>)],
     [BaseBody EXCEPT !.q7_data_usage = Absent]}


\* ------------------------------------------------ pydantic validation (lax)
ValidBool(j) == j.kind = "bool"
ValidInt(j) == j.kind = "int" \/ (j.kind = "str" /\ j.text \in Numerals)
ValidStr_OrMissing(j) == j.kind \in {"str", "absent"}
ValidStr(j) == j.kind = "str"
ValidOptStr(j) == j.kind \in {"absent", "null", "str"}

ValidConcern(it) == ValidStr(it.concern_type) /\ ValidInt(it.rating)
ValidFeature(it) == ValidStr(it.feature_type) /\ ValidInt(it.rating)

Validate(b) ==
    /\ ValidBool(b.q1_eligible)
    /\ ValidInt(b.q2_participation)
    /\ ValidStr(b.q7_data_usage)
    /\ ValidOptStr(b.q11_open_response)
    /\ b.concerns.kind = "list"
    /\ \A i \in 1..Len(b.concerns.items) : ValidConcern(b.concerns.items[i])
    /\ b.features.kind = "list"
    /\ \A i \in 1..Len(b.features.items) : ValidFeature(b.features.items[i])

\* The typed value pydantic hands to the handler. Optional[str] is << >> for
\* None and <<s>> for the string s.
ToBool(j) == j.text = "true"
ToInt(j) == NumVal(j.text)
ToOptStr_EmptyString(j) == IF j.kind = "str" THEN <<j.text>> ELSE <<"">>
ToOptStr(j) == IF j.kind = "str" THEN <<j.text>> ELSE << >>

ConcernRatingData(it) == [concern_type |-> it.concern_type.text, rating |-> ToInt(it.rating)]
FeatureImportanceData(it) == [feature_type |-> it.feature_type.text, rating |-> ToInt(it.rating)]

SurveySubmission(b) ==
    [q1_eligible |-> ToBool(b.q1_eligible),
     q2_participation |-> ToInt(b.q2_participation),
     q7_data_usage |-> b.q7_data_usage.text,
     q11_open_response |-> ToOptStr(b.q11_open_response),
     concerns |-> [i \in 1..Len(b.concerns.items) |-> ConcernRatingData(b.concerns.items[i])],
     features |-> [i \in 1..Len(b.features.items) |-> FeatureImportanceData(b.features.items[i])]]

NoSubmission ==
    [q1_eligible |-> FALSE, q2_participation |-> 0, q7_data_usage |-> "",
     q11_open_response |-> << >>, concerns |-> << >>, features |-> << >>]

\* ------------------------------------------------------------------ state
VARIABLES
    survey_responses,    \* committed rows of table survey_responses
    concern_ratings,     \* committed rows of table concern_ratings
    feature_importance,  \* committed rows of table feature_importance
    seq,                 \* the id sequences of the three tables (never rolled back)
    initCount,           \* rows survey_responses held when the process started
    pc,                  \* where each request is
    kind,                \* "submit" or "stats"
    body,                \* the JSON body a submit request carried
    submission,          \* the validated SurveySubmission handed to submit_survey
    session,             \* the request's Session: "none", "open", "closed"
    txn,                 \* the session's transaction: begun or not, and its uncommitted rows
    staged,              \* child objects db.add()ed and not yet flushed
    rid,                 \* response.id as loaded in the session (0: not loaded)
    committed,           \* db.commit() of the request returned
    wrote,               \* the request called db.add, db.flush or db.commit
    status,              \* HTTP status of the reply (0: none yet)
    reply,               \* response_id or total_responses of a 200 reply
    snap,                \* what a stats query saw around it, for the sequential reading
    workload             \* "single": one request, any body; "concurrent": all, core bodies

tables == <<survey_responses, concern_ratings, feature_importance>>
env == <<initCount, workload>>
dbvars == <<tables, seq, env>>
reqvars == <<pc, kind, body, submission, session, txn, staged, rid, committed, wrote, status, reply, snap>>
vars == <<dbvars, reqvars>>

NoTxn == [begun |-> FALSE, sr |-> {}, cr |-> {}, fi |-> {}]
NoStaged == [cr |-> << >>, fi |-> << >>]
NoSnap == [taken |-> FALSE, inflight |-> FALSE, succeeded |-> 0]

\* Rows present before the process started: parent i with one concern child.
InitResponse(i) ==
    [id |-> i, q1_eligible |-> TRUE, q2_participation |-> 4, q7_data_usage |-> "public",
     q11_open_response |-> << >>]
InitConcern(i) == [id |-> i, response_id |-> i, concern_type |-> "misuse", rating |-> 3]

\* The bodies the clients of this behaviour send, and the requests they send.
Pool == IF workload = "single" THEN Bodies ELSE CoreBodies
Sent(r) == workload = "concurrent" \/ r = 1

Init ==
    /\ workload \in {"single", "concurrent"}
    /\ initCount \in IF workload = "single" THEN {0, MaxInit} ELSE {MaxInit}
    /\ survey_responses = {InitResponse(i) : i \in 1..initCount}
    /\ concern_ratings = {InitConcern(i) : i \in 1..initCount}
    /\ feature_importance = {}
    /\ seq = [sr |-> initCount, cr |-> initCount, fi |-> 0]
    /\ pc = [r \in Requests |-> "idle"]
    /\ kind = [r \in Requests |-> "none"]
    /\ body = [r \in Requests |-> BaseBody]
    /\ submission = [r \in Requests |-> NoSubmission]
    /\ session = [r \in Requests |-> "none"]
    /\ txn = [r \in Requests |-> NoTxn]
    /\ staged = [r \in Requests |-> NoStaged]
    /\ rid = [r \in Requests |-> 0]
    /\ committed = [r \in Requests |-> FALSE]
    /\ wrote = [r \in Requests |-> FALSE]
    /\ status = [r \in Requests |-> 0]
    /\ reply = [r \in Requests |-> 0]
    /\ snap = [r \in Requests |-> NoSnap]

\* ------------------------------------------------------- ORM and database
\* An autoincrement primary key: the next value of the table's sequence. A
\* sequence value is handed out once, whether the inserting transaction
\* commits or rolls back.
NextVal_MaxPlusOne(n) ==
    LET ids == {row.id : row \in survey_responses}
    IN  IF ids = {} THEN 1 ELSE 1 + CHOOSE m \in ids : \A i \in ids : i <= m
NextVal(n) == n + 1

\* The parent object submit_survey builds from the validated submission.
SurveyResponse(id, sub) ==
    [id |-> id,
     q1_eligible |-> sub.q1_eligible,
     q2_participation |-> sub.q2_participation,
     q7_data_usage |-> sub.q7_data_usage,
     q11_open_response |-> sub.q11_open_response]

\* The child objects, before the INSERT gives them their own id.
ConcernRating_NoParent(response_id, c) ==
    [response_id |-> 0, concern_type |-> c.concern_type, rating |-> c.rating]
ConcernRating(response_id, c) ==
    [response_id |-> response_id, concern_type |-> c.concern_type, rating |-> c.rating]
FeatureImportance(response_id, f) ==
    [response_id |-> response_id, feature_type |-> f.feature_type, rating |-> f.rating]

\* response.id as the handler reads it while building the children.
ResponseId(r) == rid[r]

\* The two loops of submit_survey over submission.concerns and .features.
StageChildren(response_id, sub) ==
    [cr |-> [i \in 1..Len(sub.concerns) |-> ConcernRating(response_id, sub.concerns[i])],
     fi |-> [i \in 1..Len(sub.features) |-> FeatureImportance(response_id, sub.features[i])]]

\* INSERT of the first k staged objects, in the order they were added, with
\* ids drawn from the table's sequence standing at base.
InsertConcerns(objs, k, base) ==
    {[id |-> base + i, response_id |-> objs[i].response_id,
      concern_type |-> objs[i].concern_type, rating |-> objs[i].rating] : i \in 1..k}
InsertFeatures(objs, k, base) ==
    {[id |-> base + i, response_id |-> objs[i].response_id,
      feature_type |-> objs[i].feature_type, rating |-> objs[i].rating] : i \in 1..k}

Min(a, b) == IF a < b THEN a ELSE b

\* db.rollback(): the transaction ends and its uncommitted rows are gone.
Rollback(t) == NoTxn

\* db.close() in get_db's finally: ends any transaction still begun and
\* releases the connection.
CloseTxn(t) == NoTxn
CloseSession_Leak(s) == s
CloseSession(s) == "closed"

InFlight(r) == pc[r] \notin {"idle", "done"}

\* ------------------------------------------------------------- POST /api/submit
\* The request arrives: get_db opens the session, pydantic validates the body.
\* A body that fails validation is answered 422 and submit_survey never runs.
ReceiveSubmit(r) ==
    /\ pc[r] = "idle"
    /\ Sent(r)
    /\ \E b \in Pool :
        /\ body' = [body EXCEPT ![r] = b]
        /\ IF Validate(b)
           THEN /\ submission' = [submission EXCEPT ![r] = SurveySubmission(b)]
                /\ pc' = [pc EXCEPT ![r] = "handler"]
                /\ status' = status
           ELSE /\ submission' = submission
                /\ pc' = [pc EXCEPT ![r] = "exit"]
                /\ status' = [status EXCEPT ![r] = 422]
    /\ kind' = [kind EXCEPT ![r] = "submit"]
    /\ session' = [session EXCEPT ![r] = "open"]
    /\ UNCHANGED <<dbvars, txn, staged, rid, committed, wrote, reply, snap>>

\* db.add(response); db.flush(): the parent INSERT runs inside the session's
\* transaction and response.id is set from the sequence. Then the two loops:
\* one child object per entry, carrying response.id, added to the session;
\* they send nothing to the database (autoflush is off).
FlushParent(r) ==
    /\ pc[r] = "handler"
    /\ LET id == NextVal(seq.sr)
           sub == submission[r]
       IN  /\ seq' = [seq EXCEPT !.sr = id]
           /\ rid' = [rid EXCEPT ![r] = id]
           /\ txn' = [txn EXCEPT ![r] = [@ EXCEPT !.begun = TRUE,
                                           !.sr = {SurveyResponse(id, sub)}]]
           /\ staged' = [staged EXCEPT ![r] = StageChildren(ResponseId(r)', sub)]
    /\ wrote' = [wrote EXCEPT ![r] = TRUE]
    /\ pc' = [pc EXCEPT ![r] = "staged"]
    /\ UNCHANGED <<tables, env, kind, body, submission, session, committed, status, reply, snap>>

\* The parent INSERT raises (connection lost, statement error).
FlushParentFail(r) ==
    /\ pc[r] = "handler"
    /\ txn' = [txn EXCEPT ![r] = [@ EXCEPT !.begun = TRUE]]
    /\ wrote' = [wrote EXCEPT ![r] = TRUE]
    /\ pc' = [pc EXCEPT ![r] = "except"]
    /\ UNCHANGED <<tables, seq, env, kind, body, submission, session, staged, rid, committed,
                   status, reply, snap>>

\* A commit through a session shared by all requests: it also commits the
\* parent rows the other requests have flushed.
Commit_SharedSession(r) ==
    /\ pc[r] = "staged"
    /\ LET nc == Len(staged[r].cr)
           nf == Len(staged[r].fi)
       IN  /\ survey_responses' = survey_responses \cup UNION {txn[s].sr : s \in Requests}
           /\ concern_ratings' = concern_ratings \cup InsertConcerns(staged[r].cr, nc, seq.cr)
           /\ feature_importance' = feature_importance \cup InsertFeatures(staged[r].fi, nf, seq.fi)
           /\ seq' = [seq EXCEPT !.cr = @ + nc, !.fi = @ + nf]
    /\ txn' = [txn EXCEPT ![r] = NoTxn]
    /\ staged' = [staged EXCEPT ![r] = NoStaged]
    /\ committed' = [committed EXCEPT ![r] = TRUE]
    /\ pc' = [pc EXCEPT ![r] = "committed"]
    /\ UNCHANGED <<env, kind, body, submission, session, rid, wrote, status, reply, snap>>

\* db.commit(): the staged children are INSERTed, then COMMIT makes the
\* parent and all children visible at once. Every instance is expired
\* (expire_on_commit is left at its default).
Commit(r) ==
    /\ pc[r] = "staged"
    /\ LET nc == Len(staged[r].cr)
           nf == Len(staged[r].fi)
       IN  /\ survey_responses' = survey_responses \cup txn[r].sr
           /\ concern_ratings' = concern_ratings \cup InsertConcerns(staged[r].cr, nc, seq.cr)
           /\ feature_importance' = feature_importance \cup InsertFeatures(staged[r].fi, nf, seq.fi)
           /\ seq' = [seq EXCEPT !.cr = @ + nc, !.fi = @ + nf]
    /\ txn' = [txn EXCEPT ![r] = NoTxn]
    /\ staged' = [staged EXCEPT ![r] = NoStaged]
    /\ committed' = [committed EXCEPT ![r] = TRUE]
    /\ pc' = [pc EXCEPT ![r] = "committed"]
    /\ UNCHANGED <<env, kind, body, submission, session, rid, wrote, status, reply, snap>>

\* db.commit() raises after k of the staged children were INSERTed (k equal to
\* their number: the COMMIT itself failed). The rows stay uncommitted.
CommitFail(r) ==
    /\ pc[r] = "staged"
    /\ LET nc == Len(staged[r].cr)
           nf == Len(staged[r].fi)
       IN  \E k \in 0..(nc + nf) :
            LET kc == Min(k, nc)
                kf == k - kc
            IN  /\ txn' = [txn EXCEPT ![r] =
                        [@ EXCEPT !.cr = InsertConcerns(staged[r].cr, kc, seq.cr),
                                  !.fi = InsertFeatures(staged[r].fi, kf, seq.fi)]]
                /\ seq' = [seq EXCEPT !.cr = @ + kc, !.fi = @ + kf]
    /\ pc' = [pc EXCEPT ![r] = "except"]
    /\ UNCHANGED <<tables, env,
                   kind, body, submission, session, staged, rid, committed, wrote,
                   status, reply, snap>>

\* The return statement reads response.id. The instance is expired, so the
\* read begins a new transaction and SELECTs the row by its primary key.
ReadId(r) ==
    /\ pc[r] = "committed"
    /\ \E row \in survey_responses :
        /\ row.id = rid[r]
        /\ reply' = [reply EXCEPT ![r] = row.id]
    /\ txn' = [txn EXCEPT ![r] = [@ EXCEPT !.begun = TRUE]]
    /\ status' = [status EXCEPT ![r] = 200]
    /\ pc' = [pc EXCEPT ![r] = "exit"]
    /\ UNCHANGED <<dbvars, kind, body, submission, session, staged, rid, committed, wrote, snap>>

\* That SELECT raises (connection lost, or the row is no longer there).
ReadIdFail(r) ==
    /\ pc[r] = "committed"
    /\ txn' = [txn EXCEPT ![r] = [@ EXCEPT !.begun = TRUE]]
    /\ pc' = [pc EXCEPT ![r] = "except"]
    /\ UNCHANGED <<dbvars, kind, body, submission, session, staged, rid, committed, wrote,
                   status, reply, snap>>

\* except Exception: db.rollback(); raise HTTPException(500).
Except(r) ==
    /\ pc[r] = "except"
    /\ txn' = [txn EXCEPT ![r] = Rollback(@)]
    /\ staged' = [staged EXCEPT ![r] = NoStaged]
    /\ status' = [status EXCEPT ![r] = 500]
    /\ pc' = [pc EXCEPT ![r] = "exit"]
    /\ UNCHANGED <<dbvars, kind, body, submission, session, rid, committed, wrote, reply, snap>>

\* --------------------------------------------------------------- GET /api/stats
ReceiveStats(r) ==
    /\ pc[r] = "idle"
    /\ Sent(r)
    /\ kind' = [kind EXCEPT ![r] = "stats"]
    /\ session' = [session EXCEPT ![r] = "open"]
    /\ pc' = [pc EXCEPT ![r] = "stats"]
    /\ UNCHANGED <<dbvars, body, submission, txn, staged, rid, committed, wrote, status,
                   reply, snap>>

\* db.query(SurveyResponse).count(): counts the committed rows.
StatsQuery(r) ==
    /\ pc[r] = "stats"
    /\ reply' = [reply EXCEPT ![r] = Cardinality(survey_responses)]
    /\ snap' = [snap EXCEPT ![r] =
            [taken |-> TRUE,
             inflight |-> \E s \in Requests \ {r} : kind[s] = "submit" /\ InFlight(s),
             succeeded |-> Cardinality({s \in Requests : kind[s] = "submit" /\ status[s] = 200})]]
    /\ txn' = [txn EXCEPT ![r] = [@ EXCEPT !.begun = TRUE]]
    /\ status' = [status EXCEPT ![r] = 200]
    /\ pc' = [pc EXCEPT ![r] = "exit"]
    /\ UNCHANGED <<dbvars, kind, body, submission, session, staged, rid, committed, wrote>>

\* The query raises; get_stats has no handler, the error leaves it as a 500.
StatsFail(r) ==
    /\ pc[r] = "stats"
    /\ txn' = [txn EXCEPT ![r] = [@ EXCEPT !.begun = TRUE]]
    /\ status' = [status EXCEPT ![r] = 500]
    /\ pc' = [pc EXCEPT ![r] = "exit"]
    /\ UNCHANGED <<dbvars, kind, body, submission, session, staged, rid, committed, wrote,
                   reply, snap>>

\* ----------------------------------------------------------------- get_db exit
\* finally: db.close(), on every way out of the endpoint; then the reply leaves.
Close(r) ==
    /\ pc[r] = "exit"
    /\ session' = [session EXCEPT ![r] = CloseSession(@)]
    /\ txn' = [txn EXCEPT ![r] = CloseTxn(@)]
    /\ pc' = [pc EXCEPT ![r] = "done"]
    /\ UNCHANGED <<dbvars, kind, body, submission, staged, rid, committed, wrote, status,
                   reply, snap>>

Next ==
    \E r \in Requests :
        \/ ReceiveSubmit(r)
        \/ FlushParent(r)
        \/ FlushParentFail(r)
        \/ Commit(r)
        \/ CommitFail(r)
        \/ ReadId(r)
        \/ ReadIdFail(r)
        \/ Except(r)
        \/ ReceiveStats(r)
        \/ StatsQuery(r)
        \/ StatsFail(r)
        \/ Close(r)

Spec == Init /\ [][Next]_vars

\* ------------------------------------------------- deleting a response
\* No endpoint deletes. The mapping declares what a delete of a parent through
\* the ORM does: relationship(..., cascade="all, delete-orphan") deletes the
\* children that reference it in the same transaction.
Cascade_None(children, id) == children
Cascade(children, id) == {c \in children : c.response_id # id}

\* Deletes are explored beside one request (workload "single").
DeleteResponse(id) ==
    /\ workload = "single"
    /\ \E row \in survey_responses : row.id = id
    /\ survey_responses' = {row \in survey_responses : row.id # id}
    /\ concern_ratings' = Cascade(concern_ratings, id)
    /\ feature_importance' = Cascade(feature_importance, id)
    /\ UNCHANGED <<seq, env, reqvars>>

NextDel ==
    \/ Next
    \/ \E id \in 1..(MaxInit + NumReq) : DeleteResponse(id)

SpecDel == Init /\ [][NextDel]_vars

\* ================================================================ properties
Submits == {r \in Requests : kind[r] = "submit"}
Committed == {r \in Requests : committed[r]}

ParentRows(id) == {row \in survey_responses : row.id = id}
ConcernRows(id) == {c \in concern_ratings : c.response_id = id}
FeatureRows(id) == {f \in feature_importance : f.response_id = id}

\* Some row of request r's submission is in the committed tables.
Persisted(r) ==
    /\ rid[r] # 0
    /\ ParentRows(rid[r]) \cup ConcernRows(rid[r]) \cup FeatureRows(rid[r]) # {}

\* The parent row and every child row of request r's submission are committed.
FullyRecorded(r) ==
    /\ rid[r] # 0
    /\ Cardinality(ParentRows(rid[r])) = 1
    /\ Cardinality(ConcernRows(rid[r])) = Len(body[r].concerns.items)
    /\ Cardinality(FeatureRows(rid[r])) = Len(body[r].features.items)

\* ---- C1
\* C1 (as claimed): a submit request that failed after its parent row was
\* flushed (it holds an id and was answered 500) has, once complete, no row of
\* its submission in any of the three tables.
C1_FailureAfterFlushPersistsNothing ==
    \A r \in Submits :
        (pc[r] = "done" /\ status[r] = 500 /\ rid[r] # 0) => ~Persisted(r)

\* ---- C2
\* C2: a submit request answered with success has added exactly one parent row,
\* a new one, whose id is the response_id returned; exactly len(concerns)
\* concern_ratings rows and len(features) feature_importance rows carry that id.
C2_SuccessAddsExactlyItsRows ==
    \A r \in Submits :
        status[r] = 200 =>
            /\ reply[r] = rid[r]
            /\ rid[r] > initCount
            /\ Cardinality(ParentRows(reply[r])) = 1
            /\ Cardinality(ConcernRows(reply[r])) = Len(body[r].concerns.items)
            /\ Cardinality(FeatureRows(reply[r])) = Len(body[r].features.items)

\* Two requests succeeded side by side, one of them with two equal concerns
\* and no feature.
C2_Witness ==
    \E r, s \in Submits :
        /\ r # s /\ status[r] = 200 /\ status[s] = 200
        /\ Len(body[r].concerns.items) = 2 /\ Len(body[r].features.items) = 0
        /\ Len(body[s].features.items) = 1

\* ---- C3
\* C3 (as claimed): a completed submit request was answered success exactly
\* when its parent and all its children are committed, and was answered with
\* an error exactly when none of its rows is persisted.
C3_NoPartialSuccess ==
    \A r \in Submits :
        pc[r] = "done" =>
            /\ status[r] = 200 <=> FullyRecorded(r)
            /\ status[r] \in {422, 500} <=> ~Persisted(r)

\* ---- C4
\* The declared type of each required scalar field, in JSON terms.
Declared == [q1_eligible |-> "bool", q2_participation |-> "int", q7_data_usage |-> "str"]

\* The value has the declared JSON type; with lax, a string holding a numeral
\* also passes for an integer field.
FieldOk(j, t, lax) ==
    j.kind = t \/ (lax /\ t = "int" /\ j.kind = "str" /\ j.text \in {"3", "4", "5"})

\* A required field is missing, or some field's value is not FieldOk for its type.
Rejectable(b, lax) ==
    \/ \E f \in DOMAIN Declared : ~FieldOk(b[f], Declared[f], lax)
    \/ b.q11_open_response.kind \notin {"absent", "null", "str"}
    \/ b.concerns.kind # "list"
    \/ \E i \in 1..Len(b.concerns.items) :
            \/ ~FieldOk(b.concerns.items[i].concern_type, "str", lax)
            \/ ~FieldOk(b.concerns.items[i].rating, "int", lax)
    \/ b.features.kind # "list"
    \/ \E i \in 1..Len(b.features.items) :
            \/ ~FieldOk(b.features.items[i].feature_type, "str", lax)
            \/ ~FieldOk(b.features.items[i].rating, "int", lax)

\* The request was answered 422 and never reached add, flush or commit.
RejectedBeforePersistence(r) ==
    /\ status[r] = 422
    /\ pc[r] \in {"exit", "done"}
    /\ ~wrote[r] /\ ~committed[r] /\ rid[r] = 0
    /\ txn[r] = NoTxn /\ staged[r] = NoStaged

C5_StatsCountsSuccesses ==
    \A r \in Requests :
        (snap[r].taken /\ ~snap[r].inflight) => reply[r] = initCount + snap[r].succeeded

\* ---- C6
\* C6: a completed request has its session closed and no transaction begun,
\* and a session is open only while its request is in flight.
C6_SessionReleased ==
    \A r \in Requests :
        /\ pc[r] = "done" => (session[r] = "closed" /\ txn[r] = NoTxn)
        /\ session[r] = "open" => InFlight(r)

\* Two requests are complete: one rolled back after its parent was flushed,
\* the other either a stats query that raised or a submission that succeeded.
C6_Witness ==
    \E r, s \in Requests :
        /\ pc[r] = "done" /\ pc[s] = "done"
        /\ kind[r] = "submit" /\ status[r] = 500 /\ rid[r] # 0 /\ ~committed[r]
        /\ \/ kind[s] = "stats" /\ status[s] = 500
           \/ kind[s] = "submit" /\ status[s] = 200

\* ---- C7
\* The rows request r's commit made durable, the children's ids starting
\* after cbase and fbase.
RowsOf(r, cbase, fbase) ==
    LET ch == StageChildren(rid[r], submission[r])
    IN  [sr |-> {SurveyResponse(rid[r], submission[r])},
         cr |-> InsertConcerns(ch.cr, Len(ch.cr), cbase),
         fi |-> InsertFeatures(ch.fi, Len(ch.fi), fbase)]

\* C7: in every state the three tables hold exactly the initial rows and the
\* rows of the requests whose commit succeeded; the children carrying a
\* request's parent id are exactly that request's children.
C7_Isolation ==
    /\ survey_responses =
            {InitResponse(i) : i \in 1..initCount}
            \cup {SurveyResponse(rid[r], submission[r]) : r \in Committed}
    /\ Cardinality(survey_responses) = initCount + Cardinality(Committed)
    /\ \A r \in Committed :
        \E cbase \in 0..seq.cr, fbase \in 0..seq.fi :
            /\ ConcernRows(rid[r]) = RowsOf(r, cbase, fbase).cr
            /\ FeatureRows(rid[r]) = RowsOf(r, cbase, fbase).fi
    /\ \A c \in concern_ratings :
            c \in {InitConcern(i) : i \in 1..initCount} \/ \E r \in Committed : c.response_id = rid[r]
    /\ \A f \in feature_importance : \E r \in Committed : f.response_id = rid[r]

\* All requests are complete: one committed, another one rolled back after it
\* had flushed its parent and holds the smaller id.
C7_Witness ==
    /\ \A r \in Requests : pc[r] = "done"
    /\ \E r, s \in Submits :
        /\ committed[r] /\ ~committed[s]
        /\ rid[s] # 0 /\ rid[s] < rid[r]
        /\ Len(submission[r].concerns) = 2

\* ---- C8
UniqueIds ==
    /\ \A a, b \in survey_responses : a.id = b.id => a = b
    /\ \A r, s \in Committed : r # s => rid[r] # rid[s]
    /\ \A r \in Committed : rid[r] > initCount /\ ParentRows(rid[r]) # {}

\* A committed row stays as it is, and the id a committed request holds stays.
StableIds ==
    /\ \A row \in survey_responses : row \in survey_responses'
    /\ \A r \in Committed : committed'[r] /\ rid'[r] = rid[r]

\* C8: any two committed survey_responses rows have different ids, and a
\* committed row keeps its id in every later state.
C8_UniqueStableIds == [](UniqueIds) /\ [][StableIds]_vars

\* A request committed with an id generated after the id of a request that
\* was rolled back.
C8_Witness ==
    \E r, s \in Submits :
        /\ committed[r] /\ ~committed[s] /\ pc[s] = "done"
        /\ rid[s] # 0 /\ rid[s] < rid[r]

\* ---- C9
\* C9: every committed concern_ratings and feature_importance row references
\* an existing survey_responses row, also after a parent was deleted.
C9_NoOrphans ==
    /\ \A c \in concern_ratings : ParentRows(c.response_id) # {}
    /\ \A f \in feature_importance : ParentRows(f.response_id) # {}

\* The initial parent, which had a child, was deleted, and a request's parent
\* with its children is there.
C9_Witness ==
    /\ initCount = 1
    /\ InitResponse(1) \notin survey_responses
    /\ \E r \in Committed : ConcernRows(rid[r]) # {} /\ ParentRows(rid[r]) # {}

\* ---- C10
Q11Absent(b) == b.q11_open_response.kind \in {"absent", "null"}

\* The stored scalars are the values the body carried: as sent, with their
\* JSON type (converted = FALSE), or converted to the declared type.
Stored(row, b, converted) ==
    /\ converted \/ (b.q1_eligible.kind = "bool" /\ b.q2_participation.kind = "int"
                        /\ b.q7_data_usage.kind = "str")
    /\ row.q1_eligible = (b.q1_eligible.text = "true")
    /\ row.q2_participation = NumVal(b.q2_participation.text)
    /\ row.q7_data_usage = b.q7_data_usage.text

Q11Claim(converted) ==
    \A r \in Submits :
        Q11Absent(body[r]) =>
            /\ ~Rejectable(body[r], TRUE) => status[r] # 422
            /\ committed[r] =>
                \E row \in survey_responses :
                    /\ row.id = rid[r]
                    /\ row.q11_open_response = << >>
                    /\ Stored(row, body[r], converted)

====
